---- MODULE Spec2Model ----
(***************************************************************************)
(* The expense-entry form of leocuapio/expense-tracker                     *)
(* (src/components/ExpenseForm/ExpenseForm.tsx): the draft `formData`, the *)
(* error map `errors`, the validator validateExpenseForm and the two event *)
(* handlers handleInputChange and handleSubmit.                            *)
(*                                                                         *)
(* Text is a sequence of one-character strings, so that trim(), parseFloat *)
(* and toISOString().split('T')[0] are computed character by character as  *)
(* the JavaScript built-ins compute them.  A category is a TLA+ string.    *)
(***************************************************************************)
EXTENDS Integers, Sequences, FiniteSets, TLC

VARIABLES
    formData,    \* useState<ExpenseFormData>: description, amount, category, date
    errors,      \* useState<FormErrors>: per field "absent", "undefined" or a message
    calls,       \* the records the most recent event passed to props.onSubmit
    validation,  \* what validateExpenseForm returned in the most recent event
    event,       \* the most recent event: its handler, and the field and value of an edit
    now,         \* the clock read by new Date(): hours since 1970-01-01T00:00Z
    rendered,    \* the formData and errors of the last render: what the handlers close over
    edited       \* the fields left blank by a reset that were edited since the last reset

vars == <<formData, errors, calls, validation, event, now, rendered, edited>>

Fields == {"description", "amount", "category", "date"}

(***************************************************************************)
(* Characters and text.                                                    *)
(***************************************************************************)
Whitespace == {" ", "\t"}

Digits == {"0", "1", "2", "3", "4", "5", "6", "7", "8", "9"}

DigitChars == <<"0", "1", "2", "3", "4", "5", "6", "7", "8", "9">>

DigitVal(c) == CHOOSE n \in 0..9 : DigitChars[n + 1] = c

Drop(s, n) == SubSeq(s, n + 1, Len(s))

Take(s, n) == SubSeq(s, 1, n)

\* the number of leading characters of s that are in set cs
RECURSIVE SpanLen(_, _)
SpanLen(s, cs) ==
    IF s = <<>> \/ Head(s) \notin cs THEN 0 ELSE 1 + SpanLen(Tail(s), cs)

\* String.prototype.trimStart / trimEnd / trim
trimStart(s) == Drop(s, SpanLen(s, Whitespace))

RECURSIVE trimEnd(_)
trimEnd(s) ==
    IF s = <<>> \/ s[Len(s)] \notin Whitespace THEN s ELSE trimEnd(Take(s, Len(s) - 1))

trim(s) == trimEnd(trimStart(s))


(***************************************************************************)
(* JavaScript numbers, as far as parseFloat of a short text produces them: *)
(* NaN, +/-Infinity, or the decimal (-1)^neg * m * 10^e, kept normalised   *)
(* (m has no trailing zero; zero is m = 0, e = 0, and keeps its sign).     *)
(***************************************************************************)
NaN == [kind |-> "NaN", neg |-> FALSE, m |-> 0, e |-> 0]

Infinity(neg) == [kind |-> "Infinity", neg |-> neg, m |-> 0, e |-> 0]

RECURSIVE Number(_, _, _)
Number(neg, m, e) ==
    IF m = 0 THEN [kind |-> "number", neg |-> neg, m |-> 0, e |-> 0]
    ELSE IF m % 10 = 0 THEN Number(neg, m \div 10, e + 1)
    ELSE [kind |-> "number", neg |-> neg, m |-> m, e |-> e]

isNaN(v) == v.kind = "NaN"

\* v < 0 in place of v <= 0 (the variant C13 is checked against)
LessOrEqualZero_Strict(v) ==
    \/ v.kind = "number" /\ v.m > 0 /\ v.neg
    \/ v.kind = "Infinity" /\ v.neg

\* v <= 0 (false for NaN; true for -0 and +0)
LessOrEqualZero(v) ==
    \/ v.kind = "number" /\ (v.m = 0 \/ v.neg)
    \/ v.kind = "Infinity" /\ v.neg

\* the value of a sequence of decimal digits (0 for the empty one)
RECURSIVE DigitsVal(_)
DigitsVal(ds) ==
    IF ds = <<>> THEN 0
    ELSE 10 * DigitsVal(Take(ds, Len(ds) - 1)) + DigitVal(ds[Len(ds)])

IsPrefix(p, s) == Len(p) <= Len(s) /\ Take(s, Len(p)) = p

InfinityText == <<"I", "n", "f", "i", "n", "i", "t", "y">>

(***************************************************************************)
(* parseFloat: skips leading white space, then reads the LONGEST PREFIX    *)
(* that is a decimal literal ([+-] digits [. digits] [e [+-] digits], or   *)
(* [+-] Infinity) and ignores whatever follows it; NaN when no prefix is   *)
(* a literal.  ScanFloat gives the value read and the text left unread.    *)
(***************************************************************************)
\* the digits of an exponent: the text after the e, less its sign
ExponentDigits(x) == IF x # <<>> /\ x[1] \in {"+", "-"} THEN Tail(x) ELSE x

\* the literal has exponent part e [+-] xd..., of which the leading digits count
WithExponent(neg, ds, nf, xneg, xd) ==
    [value |-> Number(neg, DigitsVal(ds),
                      (IF xneg THEN -1 ELSE 1) * DigitsVal(Take(xd, SpanLen(xd, Digits))) - nf),
     rest  |-> Drop(xd, SpanLen(xd, Digits))]

\* mantissa digits ds, nf of them after the point, read; r is the text after them
ScanExponent(neg, ds, nf, r) ==
    IF /\ r # <<>>
       /\ r[1] \in {"e", "E"}
       /\ SpanLen(ExponentDigits(Tail(r)), Digits) > 0
    THEN WithExponent(neg, ds, nf, Tail(r)[1] = "-", ExponentDigits(Tail(r)))
    ELSE [value |-> Number(neg, DigitsVal(ds), -nf), rest |-> r]

\* a literal needs a digit before or after the point
ScanMantissa(neg, int, frac, r, t) ==
    IF int = <<>> /\ frac = <<>>
    THEN [value |-> NaN, rest |-> t]
    ELSE ScanExponent(neg, int \o frac, Len(frac), r)

\* integer digits int read; r is the text after them
ScanFraction(neg, int, r, t) ==
    IF r # <<>> /\ r[1] = "."
    THEN ScanMantissa(neg, int, Take(Tail(r), SpanLen(Tail(r), Digits)),
                      Drop(Tail(r), SpanLen(Tail(r), Digits)), t)
    ELSE ScanMantissa(neg, int, <<>>, r, t)

\* sign read; u is the text after it
ScanUnsigned(neg, u, t) ==
    IF IsPrefix(InfinityText, u)
    THEN [value |-> Infinity(neg), rest |-> Drop(u, Len(InfinityText))]
    ELSE ScanFraction(neg, Take(u, SpanLen(u, Digits)), Drop(u, SpanLen(u, Digits)), t)

\* t is the text without its leading white space
ScanSigned(t) ==
    IF t # <<>> /\ t[1] \in {"+", "-"}
    THEN ScanUnsigned(t[1] = "-", Tail(t), t)
    ELSE ScanUnsigned(FALSE, t, t)

ScanFloat(s) == ScanSigned(trimStart(s))

parseFloat(s) == ScanFloat(s).value

(***************************************************************************)
(* new Date().toISOString().split('T')[0]: the clock is a UTC instant;     *)
(* toISOString writes its UTC calendar fields, whatever the local          *)
(* timezone is.                                                            *)
(***************************************************************************)
\* the civil date <<year, month, day>> of day number z (days since 1970-01-01)
CivilFromDays(z) ==
    LET s   == z + 719468
        era == s \div 146097
        doe == s - era * 146097
        yoe == (doe - doe \div 1460 + doe \div 36524 - doe \div 146096) \div 365
        doy == doe - (365 * yoe + yoe \div 4 - yoe \div 100)
        mp  == (5 * doy + 2) \div 153
        d   == doy - (153 * mp + 2) \div 5 + 1
        m   == IF mp < 10 THEN mp + 3 ELSE mp - 9
        y   == yoe + era * 400 + (IF m <= 2 THEN 1 ELSE 0)
    IN  <<y, m, d>>

\* n in decimal, zero-padded to w characters
RECURSIVE Pad(_, _)
Pad(n, w) == IF w = 0 THEN <<>> ELSE Pad(n \div 10, w - 1) \o <<DigitChars[(n % 10) + 1]>>

\* Date.prototype.toISOString of the instant t (hours since the epoch)
toISOString(t) ==
    LET ymd == CivilFromDays(t \div 24)
    IN  Pad(ymd[1], 4) \o <<"-">> \o Pad(ymd[2], 2) \o <<"-">> \o Pad(ymd[3], 2)
        \o <<"T">> \o Pad(t % 24, 2)
        \o <<":", "0", "0", ":", "0", "0", ".", "0", "0", "0", "Z">>

\* s.split(c)[0]: the text before the first c (all of s when it has none)
RECURSIVE SplitFirst(_, _)
SplitFirst(s, c) ==
    IF s = <<>> \/ Head(s) = c THEN <<>> ELSE <<Head(s)>> \o SplitFirst(Tail(s), c)

\* new Date().toISOString().split('T')[0] with the clock at t
TodayISO(t) == SplitFirst(toISOString(t), "T")

(***************************************************************************)
(* The component's state and its validator.                                *)
(***************************************************************************)
Absent == "absent"            \* the key is not in the FormErrors object

Undefined == "undefined"      \* the key is there and holds undefined

DescriptionRequired == "Description is required"

AmountInvalid == "Amount must be a positive number"

CategoryRequired == "Category is required"

DateRequired == "Date is required"

\* useState<FormErrors>({})
EmptyErrors == [f \in Fields |-> Absent]

\* the useState initialiser of formData, also written back by the reset
InitialFormData(t) ==
    [description |-> <<>>, amount |-> <<>>, category |-> "Food", date |-> TodayISO(t)]

\* a FormErrors value read in a condition: errors[name] is truthy
Truthy(e) == e \notin {Absent, Undefined}

\* validateExpenseForm written as an else-if chain: it stops at the first rule
\* that fails (the variant C6 is checked against)
validateExpenseForm_FirstOnly(data) ==
    LET amount == parseFloat(data.amount)
        first ==
            IF trim(data.description) = <<>> THEN "description"
            ELSE IF isNaN(amount) \/ LessOrEqualZero(amount) THEN "amount"
            ELSE IF data.category = "" THEN "category"
            ELSE IF data.date = <<>> THEN "date"
            ELSE ""
        validationErrors ==
            [f \in Fields |->
                IF f # first THEN Absent
                ELSE CASE f = "description" -> DescriptionRequired
                       [] f = "amount"      -> AmountInvalid
                       [] f = "category"    -> CategoryRequired
                       [] f = "date"        -> DateRequired]
    IN  [isValid |-> first = "", errors |-> validationErrors]

validateExpenseForm(data) ==
    LET amount == parseFloat(data.amount)
        validationErrors ==
            [f \in Fields |->
                CASE f = "description" ->
                        IF trim(data.description) = <<>> THEN DescriptionRequired ELSE Absent
                  [] f = "amount" ->
                        IF isNaN(amount) \/ LessOrEqualZero(amount) THEN AmountInvalid ELSE Absent
                  [] f = "category" ->
                        IF data.category = "" THEN CategoryRequired ELSE Absent
                  [] f = "date" ->
                        IF data.date = <<>> THEN DateRequired ELSE Absent]
    IN  [isValid |-> \A f \in Fields : validationErrors[f] = Absent,
         errors  |-> validationErrors]

\* SubmittedRecord without the trim() (the variant C7 is checked against)
SubmittedRecord_Untrimmed(data) ==
    [description |-> data.description,
     amount      |-> parseFloat(data.amount),
     category    |-> data.category,
     date        |-> data.date]

\* the record handleSubmit passes to props.onSubmit
SubmittedRecord(data) ==
    [description |-> trim(data.description),
     amount      |-> parseFloat(data.amount),
     category    |-> data.category,
     date        |-> data.date]

\* setFormData(prev => ({...prev, [name]: value}))
SetField(prev, name, value) == [prev EXCEPT ![name] = value]

\* ClearError that leaves the error map alone (the variant C1 is checked against)
ClearError_Never(seen, prev, name) == prev

\* ClearError that empties the whole error map (the variant C8 is checked against)
ClearError_All(seen, prev, name) ==
    IF Truthy(seen[name]) THEN [f \in Fields |-> Absent] ELSE prev

\* if (errors[name]) setErrors(prev => ({...prev, [name]: undefined})): the test
\* reads the errors the handler closes over (seen), the updater the current ones
ClearError(seen, prev, name) ==
    IF Truthy(seen[name]) THEN [prev EXCEPT ![name] = Undefined] ELSE prev

\* handlers memoised at mount: they go on seeing the first render's state
\* (the variant C12 is checked against)
Render_Stale(fd, errs) ==
    [formData |-> [fd EXCEPT !.description = <<>>, !.amount = <<>>], errors |-> EmptyErrors]

\* a render: the component function runs on the committed state and creates
\* handleInputChange and handleSubmit anew, closing over that state.  React
\* renders at the end of every change and submit event, before the next one
Render(fd, errs) == [formData |-> fd, errors |-> errs]

\* the fields the reset of a successful submit leaves blank
BlankOnReset == {"description", "amount"}

NoValidation == [called |-> FALSE]

NoEvent(op) == [op |-> op, name |-> "", value |-> ""]

(***************************************************************************)
(* The values an edit event can carry (e.target.value), per field.  The    *)
(* category values are <option>s of the two versions of the form, and the *)
(* empty value.                                                            *)
(***************************************************************************)
DescriptionInputs ==
    { <<>>, <<" ">>, <<" ", "a", " ">>, <<"a", " ", "b">> }

AmountInputs ==
    { <<>>,
      <<"4", ".", "5", "0">>,
      <<"-", "3">>,
      <<"0">>,
      <<"a", "b", "c">>,
      <<"5", "$">>,
      <<"1", ",", "0", "0", "0">> }

CategoryInputs == {"", "Food", "Shopping", "Other"}

DateInputs == { <<>>, <<"2", "0", "2", "4", "-", "0", "1", "-", "1", "5">> }

InputValues(name) ==
    CASE name = "description" -> DescriptionInputs
      [] name = "amount"      -> AmountInputs
      [] name = "category"    -> CategoryInputs
      [] name = "date"        -> DateInputs

\* the clock starts at 2024-02-28T18:00Z and advances TickHours at a time
ClockStart == 474762

TickHours == 8

MaxClockHours == 8

(***************************************************************************)
(* The state after the component is mounted.                               *)
(***************************************************************************)
Init ==
    /\ now = ClockStart
    /\ formData = InitialFormData(now)
    /\ errors = EmptyErrors
    /\ calls = <<>>
    /\ validation = NoValidation
    /\ event = NoEvent("init")
    /\ rendered = Render(formData, errors)
    /\ edited = {}

\* onChange of an input or of the select: e.target = {name, value}
handleInputChange(name, value) ==
    /\ formData' = SetField(formData, name, value)
    /\ errors' = ClearError(rendered.errors, errors, name)
    /\ calls' = <<>>
    /\ validation' = NoValidation
    /\ event' = [op |-> "change", name |-> name, value |-> value]
    /\ edited' = edited \cup ({name} \cap BlankOnReset)
    /\ rendered' = Render(formData', errors')
    /\ UNCHANGED now

\* handleSubmit without the `return` of its invalid branch: it goes on to clear
\* the errors, call the sink and reset (the variant C2 is checked against)
handleSubmit_NoReturn ==
    LET v == validateExpenseForm(rendered.formData)
    IN  /\ validation' = [called |-> TRUE, data |-> rendered.formData,
                          isValid |-> v.isValid, errors |-> v.errors]
        /\ event' = NoEvent("submit")
        /\ errors' = EmptyErrors
        /\ calls' = <<SubmittedRecord(rendered.formData)>>
        /\ formData' = InitialFormData(now)
        /\ edited' = {}
        /\ rendered' = Render(formData', errors')
        /\ UNCHANGED now

\* handleSubmit without the final setFormData (the variant C3 and C14 are
\* checked against)
handleSubmit_NoReset ==
    LET v == validateExpenseForm(rendered.formData)
    IN  /\ validation' = [called |-> TRUE, data |-> rendered.formData,
                          isValid |-> v.isValid, errors |-> v.errors]
        /\ event' = NoEvent("submit")
        /\ IF ~v.isValid
           THEN /\ errors' = v.errors
                /\ calls' = <<>>
                /\ UNCHANGED edited
           ELSE /\ errors' = EmptyErrors
                /\ calls' = <<SubmittedRecord(rendered.formData)>>
                /\ edited' = {}
        /\ UNCHANGED <<formData, now>>
        /\ rendered' = Render(formData', errors')

\* onSubmit of the form, with a sink (props.onSubmit) that returns
handleSubmit ==
    LET v == validateExpenseForm(rendered.formData)
    IN  /\ validation' = [called |-> TRUE, data |-> rendered.formData,
                          isValid |-> v.isValid, errors |-> v.errors]
        /\ event' = NoEvent("submit")
        /\ IF ~v.isValid
           THEN /\ errors' = v.errors
                /\ calls' = <<>>
                /\ UNCHANGED <<formData, edited>>
           ELSE /\ errors' = EmptyErrors
                /\ calls' = <<SubmittedRecord(rendered.formData)>>
                /\ formData' = InitialFormData(now)
                /\ edited' = {}
        /\ rendered' = Render(formData', errors')
        /\ UNCHANGED now

\* what a submit raised to its caller, kept in event.value
SinkError == "sink error"

\* onSubmit of the form on a valid draft, with a sink that throws: setErrors({})
\* has been queued and is applied, the call of line 139 raises, and the
\* setFormData of line 150 is never reached
handleSubmitThrows ==
    LET v == validateExpenseForm(rendered.formData)
    IN  /\ v.isValid
        /\ validation' = [called |-> TRUE, data |-> rendered.formData,
                          isValid |-> v.isValid, errors |-> v.errors]
        /\ event' = [op |-> "submit", name |-> "", value |-> SinkError]
        /\ errors' = EmptyErrors
        /\ calls' = <<SubmittedRecord(rendered.formData)>>
        /\ UNCHANGED <<formData, edited, now>>
        /\ rendered' = Render(formData', errors')

\* time passes between two events
Tick ==
    /\ now + TickHours <= ClockStart + MaxClockHours
    /\ now' = now + TickHours
    /\ calls' = <<>>
    /\ validation' = NoValidation
    /\ event' = NoEvent("tick")
    /\ UNCHANGED <<formData, errors, rendered, edited>>

Next ==
    \/ \E name \in Fields : \E value \in InputValues(name) : handleInputChange(name, value)
    \/ handleSubmit
    \/ Tick

Spec == Init /\ [][Next]_vars

\* the same component under a sink that may throw
NextSink ==
    \/ handleSubmitThrows
    \/ Next

SpecSink == Init /\ [][NextSink]_vars

(***************************************************************************)
(* The rules and notions the specification states, written from its text.  *)
(***************************************************************************)
\* export type ExpenseCategory
ExpenseCategory == {"Food", "Transportation", "Entertainment", "Other"}

\* the description rule fails on a text that is empty or all white space
Blank(s) == \A i \in 1..Len(s) : s[i] \in Whitespace

\* a number strictly greater than zero (never NaN)
Positive(v) == v.kind # "NaN" /\ ~v.neg /\ (v.kind = "Infinity" \/ v.m > 0)

\* field f of draft d satisfies its validation rule
RuleHolds(f, d) ==
    CASE f = "description" -> ~Blank(d.description)
      [] f = "amount"      -> Positive(parseFloat(d.amount))
      [] f = "category"    -> d.category # ""
      [] f = "date"        -> d.date # <<>>

\* the message of field f's rule
RuleMessage(f) ==
    CASE f = "description" -> DescriptionRequired
      [] f = "amount"      -> AmountInvalid
      [] f = "category"    -> CategoryRequired
      [] f = "date"        -> DateRequired

\* t is s with its leading and trailing white space removed, and nothing else
IsTrimOf(t, s) ==
    /\ t = <<>> \/ (t[1] \notin Whitespace /\ t[Len(t)] \notin Whitespace)
    /\ \E i \in 0..Len(s) : \E j \in i..Len(s) :
          /\ SubSeq(s, i + 1, j) = t
          /\ Blank(SubSeq(s, 1, i))
          /\ Blank(SubSeq(s, j + 1, Len(s)))

\* r is the normalized record of draft d
NormalizedOf(r, d) ==
    /\ IsTrimOf(r.description, d.description)
    /\ r.amount = parseFloat(d.amount)
    /\ Positive(r.amount)
    /\ r.category = d.category
    /\ r.date = d.date

\* the whole text, white space around it aside, is one decimal number
IsDecimalNumber(s) ==
    LET r == ScanFloat(s) IN r.value.kind = "number" /\ Blank(r.rest)

\* the timezones the date claims are checked for: hours ahead of UTC
TzOffsets == {-8, 0, 9}

\* the calendar date, as YYYY-MM-DD, that a clock in timezone z shows at instant t
LocalDate(t, z) ==
    LET ymd == CivilFromDays((t + z) \div 24)
    IN  Pad(ymd[1], 4) \o <<"-">> \o Pad(ymd[2], 2) \o <<"-">> \o Pad(ymd[3], 2)

FailedSubmit == event.op = "submit" /\ ~validation.isValid

SuccessfulSubmit == event.op = "submit" /\ validation.isValid

(***************************************************************************)
(* C1: in every reachable state the error map has no entry for a field     *)
(* whose current draft value satisfies that field's rule.                  *)
(***************************************************************************)
C1_NoStaleError ==
    \A f \in Fields : Truthy(errors[f]) => ~RuleHolds(f, formData)

\* an edit has just fixed a field whose error was showing, while another
\* field's error is still showing
C1_Witness ==
    /\ event.op = "change"
    /\ errors[event.name] = Undefined
    /\ RuleHolds(event.name, formData)
    /\ \E g \in Fields : Truthy(errors[g])

(***************************************************************************)
(* C2: after a submit of a draft that fails validation the error map is    *)
(* exactly the errors validate returned, the draft is the draft that was   *)
(* submitted, and the sink was not called.                                 *)
(***************************************************************************)
C2_FailedSubmit ==
    FailedSubmit =>
        /\ errors = validation.errors
        /\ formData = validation.data
        /\ calls = <<>>

\* a failed submit whose only error is the amount: the draft had been edited
C2_Witness ==
    /\ FailedSubmit
    /\ \A f \in Fields : Truthy(errors[f]) <=> f = "amount"
    /\ formData.category # "Food"

(***************************************************************************)
(* C3: after a submit of a draft that passes validation the sink has been  *)
(* called exactly once, with the normalized record, the error map is empty *)
(* and the draft is the initial draft again: empty description and amount, *)
(* category "Food", and the date the initialiser writes at that moment.    *)
(***************************************************************************)
C3_SuccessfulSubmit ==
    SuccessfulSubmit =>
        /\ Len(calls) = 1
        /\ NormalizedOf(calls[1], validation.data)
        /\ errors = EmptyErrors
        /\ formData = [description |-> <<>>, amount |-> <<>>,
                       category |-> "Food", date |-> TodayISO(now)]

\* a successful submit of a draft whose category and date were not the defaults
C3_Witness ==
    /\ SuccessfulSubmit
    /\ validation.data.category = "Other"
    /\ validation.data.date # formData.date

(***************************************************************************)
(* C4: validate reports a category error exactly for the drafts whose      *)
(* category is empty or not one of the enumerated categories, and no       *)
(* record with a category outside the enumeration reaches the sink.        *)
(***************************************************************************)
C4_CategoryEnumerated ==
    event.op = "submit" =>
        /\ Truthy(validation.errors["category"])
              <=> validation.data.category \notin ExpenseCategory
        /\ \A i \in 1..Len(calls) : calls[i].category \in ExpenseCategory

(***************************************************************************)
(* C5: validate reports an amount error exactly for the drafts whose       *)
(* amount text is not a decimal number or whose value is <= 0; text with a *)
(* currency symbol or a grouping separator is not accepted.                *)
(***************************************************************************)
C5_AmountIsDecimal ==
    event.op = "submit" =>
        (Truthy(validation.errors["amount"])
            <=> \/ ~IsDecimalNumber(validation.data.amount)
                \/ LessOrEqualZero(parseFloat(validation.data.amount)))

(***************************************************************************)
(* C6: validate checks the four rules independently: its error map has an  *)
(* entry for a field, with that rule's message, exactly when the field's   *)
(* own rule fails, whatever the other fields hold, and it reports valid    *)
(* exactly when the map has no entry.                                      *)
(***************************************************************************)
C6_RulesIndependent ==
    event.op = "submit" =>
        /\ \A f \in Fields :
              validation.errors[f] =
                  IF RuleHolds(f, validation.data) THEN Absent ELSE RuleMessage(f)
        /\ validation.isValid <=> \A f \in Fields : validation.errors[f] = Absent

\* validate has reported the first and the last rule and passed the two between
C6_Witness ==
    /\ event.op = "submit"
    /\ \A f \in Fields :
          validation.errors[f] # Absent <=> f \in {"description", "date"}

(***************************************************************************)
(* C7: the record passed to the sink has the draft's description without   *)
(* its leading and trailing white space, the number parsed from the        *)
(* draft's amount text, and the draft's category and date unchanged.       *)
(***************************************************************************)
C7_NormalizedRecord ==
    SuccessfulSubmit =>
        /\ calls # <<>>
        /\ \A i \in 1..Len(calls) :
              /\ calls[i].description = trim(validation.data.description)
              /\ IsTrimOf(calls[i].description, validation.data.description)
              /\ calls[i].amount = parseFloat(validation.data.amount)
              /\ calls[i].category = validation.data.category
              /\ calls[i].date = validation.data.date

\* " a " and "4.50" were submitted: the sink got "a" and the number 4.5
C7_Witness ==
    /\ SuccessfulSubmit
    /\ validation.data.description = <<" ", "a", " ">>
    /\ calls[1].description = <<"a">>
    /\ validation.data.amount = <<"4", ".", "5", "0">>
    /\ calls[1].amount = [kind |-> "number", neg |-> FALSE, m |-> 45, e |-> -1]

(***************************************************************************)
(* C8: an edit of field `name` to `value` sets that draft field and no     *)
(* other, leaves `name` without an error entry and every other field's     *)
(* entry as it was, adds no entry, runs no validation and makes no sink    *)
(* call.                                                                   *)
(***************************************************************************)
C8_EditFrame ==
    [][event'.op = "change" =>
          /\ formData'[event'.name] = event'.value
          /\ \A f \in Fields \ {event'.name} :
                /\ formData'[f] = formData[f]
                /\ errors'[f] = errors[f]
          /\ ~Truthy(errors'[event'.name])
          /\ Truthy(errors[event'.name]) \/ errors'[event'.name] = errors[event'.name]
          /\ calls' = <<>>
          /\ validation' = NoValidation]_vars

\* an edit has put an invalid value in a field whose error was showing: the
\* entry is gone, none was added, and another field's entry is still there
C8_Witness ==
    /\ event.op = "change"
    /\ errors[event.name] = Undefined
    /\ ~RuleHolds(event.name, formData)
    /\ \E g \in Fields \ {event.name} : Truthy(errors[g])

(***************************************************************************)
(* C10: at initialization the error map is empty and the draft is empty    *)
(* description, empty amount, category "Food" and the local calendar date, *)
(* in every timezone; the reset of a successful submit writes the local    *)
(* calendar date too.                                                      *)
(***************************************************************************)
C10_LocalDate ==
    \A z \in TzOffsets :
        (event.op = "init" \/ SuccessfulSubmit) =>
            /\ errors = EmptyErrors
            /\ formData = [description |-> <<>>, amount |-> <<>>,
                           category |-> "Food", date |-> LocalDate(now, z)]

(***************************************************************************)
(* C11: each submit is atomic, whatever the sink does: after it, either    *)
(* the error map is validate's errors, the draft is unchanged and the sink *)
(* was not called, or the error map is empty, the draft is the defaults    *)
(* and the sink was called exactly once; and a validation failure is never *)
(* raised to the caller.                                                   *)
(***************************************************************************)
C11_SubmitAtomic ==
    event.op = "submit" =>
        /\ \/ /\ ~validation.isValid
              /\ errors = validation.errors
              /\ formData = validation.data
              /\ calls = <<>>
           \/ /\ validation.isValid
              /\ errors = EmptyErrors
              /\ formData = [description |-> <<>>, amount |-> <<>>,
                             category |-> "Food", date |-> TodayISO(now)]
              /\ Len(calls) = 1
        /\ ~validation.isValid => event.value # SinkError

(***************************************************************************)
(* C12: events are handled one at a time and each sees the effects of all  *)
(* earlier ones: a submit validates the current draft, an edit decides     *)
(* whether to clear an error from the current error map, and after every   *)
(* event the handlers see the draft and the error map that event left.     *)
(***************************************************************************)
C12_SeesEarlierEvents ==
    [][/\ event'.op = "submit" => validation'.data = formData
       /\ event'.op = "change" =>
             errors' = IF Truthy(errors[event'.name])
                       THEN [errors EXCEPT ![event'.name] = Undefined]
                       ELSE errors
       /\ rendered'.formData = formData'
       /\ rendered'.errors = errors']_vars

\* a submit has failed on the amount alone, just after that amount was typed
\* over a description typed earlier: it validated both edits
C12_Witness ==
    /\ FailedSubmit
    /\ validation.data.description = <<"a", " ", "b">>
    /\ validation.data.amount = <<"a", "b", "c">>
    /\ edited = BlankOnReset
    /\ Truthy(errors["amount"])
    /\ ~Truthy(errors["description"])

(***************************************************************************)
(* C13: every record the sink receives has a non-empty description without *)
(* leading or trailing white space, an amount that is a number strictly    *)
(* greater than zero, a non-empty category and a non-empty date.           *)
(***************************************************************************)
C13_SinkRecordsValid ==
    \A i \in 1..Len(calls) :
        /\ calls[i].description # <<>>
        /\ calls[i].description[1] \notin Whitespace
        /\ calls[i].description[Len(calls[i].description)] \notin Whitespace
        /\ Positive(calls[i].amount)
        /\ calls[i].category # ""
        /\ calls[i].date # <<>>

\* the sink has received a record made from a padded description and from an
\* amount text with trailing characters
C13_Witness ==
    /\ Len(calls) = 1
    /\ validation.data.description = <<" ", "a", " ">>
    /\ validation.data.amount = <<"5", "$">>
    /\ calls[1].category = "Shopping"

(***************************************************************************)
(* C14: a submit that directly follows a submit that delivered a record    *)
(* calls the sink zero times and leaves exactly the description and amount *)
(* entries in the error map; and every delivery to the sink is preceded by *)
(* edits of both description and amount made since the previous delivery.  *)
(***************************************************************************)
C14_NoRepeatedDelivery ==
    [][/\ (SuccessfulSubmit /\ event'.op = "submit") =>
             /\ calls' = <<>>
             /\ \A f \in Fields : Truthy(errors'[f]) <=> f \in {"description", "amount"}
       /\ (event'.op = "submit" /\ calls' # <<>>) =>
             edited = {"description", "amount"}]_vars

\* a submit has failed on description and amount with neither edited since the
\* reset that wrote the draft's date, a date the mount did not write
C14_Witness ==
    /\ FailedSubmit
    /\ edited = {}
    /\ calls = <<>>
    /\ \A f \in Fields : Truthy(errors[f]) <=> f \in {"description", "amount"}
    /\ formData.date = TodayISO(now)
    /\ formData.date # TodayISO(ClockStart)

====
